---- MODULE Spec2Model ----
(***************************************************************************)
(* Model of the retry-with-backoff engine (backoff.go) and of the curve    *)
(* applied between attempts (curves.go).                                   *)
(*                                                                         *)
(* Every Backoff call has a caller goroutine (Backoff) and, once spawned,  *)
(* a retry goroutine (backoff).  The two communicate through the buffered  *)
(* channels `result` (capacity 1) and `errorChannel` (capacity             *)
(* MaxAttempts, or the nil channel when MaxAttempts is 0).                 *)
(*                                                                         *)
(* Curve values are real numbers of seconds; they are kept in fixed point, *)
(* in thousandths of a second, and durations are kept in milliseconds.     *)
(***************************************************************************)
EXTENDS Integers, Sequences, FiniteSets, TLC

VARIABLES
    callers,        \* the Backoff calls the program makes
    conf,           \* conf[c]: the Config value passed to call c
    callerPc,       \* position of the goroutine running Backoff
    taskPc,         \* position of the goroutine running backoff
    result,         \* contents of the channel `result` (capacity 1)
    errorChannel,   \* the channel `errorChannel`: nil, or capacity and contents
    errorList,      \* Backoff's local errorList
    attempt,        \* backoff's local attempt
    res,            \* backoff's local res
    err,            \* backoff's local err (of the current iteration)
    ret,            \* what Backoff returned: [res, errs]
    history,        \* the outcomes of the invocations of conf.Func, in order
    logged,         \* the arguments of the invocations of conf.LogFailure
    curveArgs,      \* the arguments of the evaluations of conf.Curve
    waits,          \* the durations (ms) the retry goroutine was suspended
    spawned,        \* the number of go statements Backoff executed
    delivered,      \* the values sent on the channel `result`, in order
    curve,          \* a curve of curves.go under evaluation
    evals           \* the evaluations of `curve` made so far: <<x, value>>

\* the state of the evaluation of a curve on its own
curveVars == <<curve, evals>>

vars == <<callers, conf, callerPc, taskPc, result, errorChannel, errorList,
          attempt, res, err, ret, history, logged, curveArgs, waits,
          spawned, delivered, curveVars>>

----------------------------------------------------------------------------
(* Bounds of the model *)

\* largest attempt budget (Config.MaxAttempts) explored
MaxBudget == 3

\* largest `attempts` given to Default, and largest x a curve is evaluated at
MaxCurveAttempts == 4

\* number of invocations of Func explored in one call: one more than any
\* budget, so that a run without a budget outlasts every bounded one
InvocationCap == MaxBudget + 1

\* the identities of the Backoff calls a program may make
CallIds == {1, 2}

----------------------------------------------------------------------------
(* Values *)

\* the nil pointer *T and the nil error
NilPtr == "nil"
NilErr == "nil"

Ptrs == {NilPtr, "V1", "V2"}
Errs == {NilErr, "e1", "e2"}

ErrInvalidConfig == "ErrInvalidConfig"

\* a nil []error and a non-nil one with the given elements
NilSlice == [isNil |-> TRUE, elems |-> <<>>]
Slice(s) == [isNil |-> FALSE, elems |-> s]

\* the nil channel and a buffered channel made with make(chan error, n)
NilChan == [isNil |-> TRUE, cap |-> 0, buf |-> <<>>]
MakeChan(n) == [isNil |-> FALSE, cap |-> n, buf |-> <<>>]

\* len(ch): 0 for the nil channel
ChanLen(ch) == Len(ch.buf)

\* time.Second, in milliseconds
Second == 1000

\* what one invocation of Func can return
Outcomes == [res : Ptrs, err : Errs]

\* the multipliers of the curves explored, in thousandths
CurveMuls == {-500, 0, 500, 1000, 1900}

Budgets == (-1)..MaxBudget

Configs ==
    { cf \in [CurveNil : BOOLEAN, mul : CurveMuls, FuncNil : BOOLEAN,
              MaxAttempts : Budgets, LogFailure : BOOLEAN] :
        cf.CurveNil => cf.mul = 0 }

----------------------------------------------------------------------------
(* curves.go *)

\* Linear(x, mul) = x * mul
Linear(x, mul) == x * mul

\* conf.Curve(x), in thousandths of a second
Curve(cf, x) == Linear(x, cf.mul)

\* the float64 1.0 in fixed point: three decimal places
One == 1000

\* math.E
E == 2718

\* n / d rounded to the nearest integer (d > 0)
RoundDiv(n, d) ==
    IF n >= 0 THEN (2 * n + d) \div (2 * d)
              ELSE -((2 * (-n) + d) \div (2 * d))

\* the float64 product and quotient (b > 0) of fixed-point numbers
FMul(a, b) == RoundDiv(a * b, One)
FDiv(a, b) == RoundDiv(a * One, b)

\* the series 1 + t + t^2/2 + ... from the term of degree n on
RECURSIVE ExpSeries(_, _, _)
ExpSeries(t, n, term) ==
    IF term = 0 THEN 0
    ELSE term + ExpSeries(t, n + 1, RoundDiv(term * t, (n + 1) * One))

\* math.Exp(t) for t >= 0
RECURSIVE ExpPos(_)
ExpPos(t) == IF t >= One THEN FMul(E, ExpPos(t - One))
                         ELSE ExpSeries(t, 0, One)

\* math.Exp(t)
Exp(t) == IF t >= 0 THEN ExpPos(t) ELSE FDiv(One, ExpPos(-t))

\* the logistic function with the sign of the exponent lost
LogisticFalling(x, k, L, x0) ==
    FDiv(L, One + FMul(E, Exp(FMul(k, x - x0))))

\* the textbook logistic function, without the factor e
LogisticTextbook(x, k, L, x0) ==
    FDiv(L, One + Exp(FMul(-k, x - x0)))

\* Logistic(x, k, L, x0) = L / (1 + math.E*math.Exp(-k*(x-x0)))
Logistic(x, k, L, x0) ==
    FDiv(L, One + FMul(E, Exp(FMul(-k, x - x0))))

\* incline := 1 / (5 / float64(attempts)); 5/0 is +Inf and 1/+Inf is 0
Incline(attempts) ==
    IF attempts = 0 THEN 0
    ELSE IF attempts > 0 THEN FDiv(One, FDiv(5 * One, attempts * One))
    ELSE -FDiv(One, FDiv(5 * One, (-attempts) * One))

\* Default(attempts, limit): the closure over incline, limit and attempts
Default(attempts, limit) ==
    [kind |-> "Default", k |-> Incline(attempts), L |-> limit,
     x0 |-> attempts * One, mul |-> 0, attempts |-> attempts]

\* the curve func(x) { return Logistic(x, k, L, x0) }
LogisticCurve(k, L, x0) ==
    [kind |-> "Logistic", k |-> k, L |-> L, x0 |-> x0, mul |-> 0,
     attempts |-> 0]

\* the curve func(x) { return Linear(x, mul) }
LinearCurve(mul) ==
    [kind |-> "Linear", k |-> 0, L |-> 0, x0 |-> 0, mul |-> mul,
     attempts |-> 0]

----------------------------------------------------------------------------
(* backoff.go: expressions *)

\* the validation with the check of Func left out
InvalidConfigCurveOnly(cf) == cf.CurveNil

\* conf.Curve == nil || conf.Func == nil
InvalidConfig(cf) == cf.CurveNil \/ cf.FuncNil

\* make(chan error, size) panics when size is negative
MakePanics(size) == size < 0

\* the error channel made without a buffer
NewErrorChannelUnbuffered(attempts) ==
    IF attempts # 0 THEN MakeChan(0) ELSE NilChan

\* var errorChannel chan error; if conf.MaxAttempts != 0 { make(...) }
NewErrorChannel(attempts) ==
    IF attempts # 0 THEN MakeChan(attempts) ELSE NilChan

\* the loop condition admitting one attempt too many
LoopCondOffByOne(attempts, a) == attempts = 0 \/ a <= attempts

\* the loop condition without the case of no budget
LoopCondNoUnbounded(attempts, a) == a < attempts

\* the loop condition that ignores the budget
LoopCondForever(attempts, a) == TRUE

\* attempts == 0 || attempt < attempts
LoopCond(attempts, a) == attempts = 0 \/ a < attempts

\* the conversion float64 -> int64 of time.Duration(f): truncation toward zero
Trunc(f) == IF f >= 0 THEN f \div 1000 ELSE -((-f) \div 1000)

\* time.Duration(curve(float64(attempt))) * time.Second, in milliseconds
DelayOf(f) == Trunc(f) * Second

\* <-time.After(d): a non-positive duration fires at once
Suspended(d) == IF d > 0 THEN d ELSE 0

\* the callback invoked after every invocation, failed or not
ShouldLogAlways(e, logFailure) == logFailure

\* err != nil && logFailure != nil
ShouldLog(e, logFailure) == e # NilErr /\ logFailure

\* err != nil && attempts != 0 && errors != nil
ShouldSend(e, attempts, errors) == e # NilErr /\ attempts # 0 /\ ~errors.isNil

\* the loop without its break
StopRetryingNever(r) == FALSE

\* res != nil: stop retrying
StopRetrying(r) == r # NilPtr

\* one channel `result` shared by every call
SharedResultChan(c) == 1

\* result := make(chan *T, 1): every call makes its own channel
ResultChan(c) == c

\* the capacity of the channel `result`
ResultCap == 1

\* an attempt counter that skips an index
NextAttemptSkips(a) == a + 2

\* attempt++
NextAttempt(a) == a + 1

\* var errorList []error
NilErrorList == NilSlice

\* errorList := []error{}
EmptyErrorList == Slice(<<>>)

\* the drained errors collected newest first
PrependError(list, e) == Slice(<<e>> \o list.elems)

\* errorList = append(errorList, err)
AppendError(list, e) == Slice(Append(list.elems, e))

----------------------------------------------------------------------------
(* Initial state: the program is about to make the calls in `callers` *)

InitCalls(cs) ==
    /\ callers = cs
    /\ conf \in [cs -> Configs]
    /\ callerPc = [c \in cs |-> "entry"]
    /\ taskPc = [c \in cs |-> "none"]
    /\ result = [c \in cs |-> <<>>]
    /\ errorChannel = [c \in cs |-> NilChan]
    /\ errorList = [c \in cs |-> NilSlice]
    /\ attempt = [c \in cs |-> 0]
    /\ res = [c \in cs |-> NilPtr]
    /\ err = [c \in cs |-> NilErr]
    /\ ret = [c \in cs |-> [res |-> NilPtr, errs |-> NilSlice]]
    /\ history = [c \in cs |-> <<>>]
    /\ logged = [c \in cs |-> <<>>]
    /\ curveArgs = [c \in cs |-> <<>>]
    /\ waits = [c \in cs |-> <<>>]
    /\ spawned = [c \in cs |-> 0]
    /\ delivered = [c \in cs |-> <<>>]

\* no curve is evaluated on its own
NoCurve ==
    [kind |-> "none", k |-> 0, L |-> 0, x0 |-> 0, mul |-> 0, attempts |-> 0]

InitNoCurve == curve = NoCurve /\ evals = {}

Init == InitCalls({1}) /\ InitNoCurve

----------------------------------------------------------------------------
(* Backoff: the caller goroutine *)

\* lines 30-32: the configuration lacks the curve or the function
BackoffInvalid(c) ==
    /\ callerPc[c] = "entry"
    /\ InvalidConfig(conf[c])
    /\ ret' = [ret EXCEPT ![c] = [res |-> NilPtr,
                                  errs |-> Slice(<<ErrInvalidConfig>>)]]
    /\ callerPc' = [callerPc EXCEPT ![c] = "returned"]
    /\ UNCHANGED <<spawned, delivered, curveVars,
                   callers, conf, taskPc, result, errorChannel, errorList,
                   attempt, res, err, history, logged, curveArgs, waits>>

\* lines 38-40: make(chan error, conf.MaxAttempts) with a negative size
BackoffPanic(c) ==
    /\ callerPc[c] = "entry"
    /\ ~InvalidConfig(conf[c])
    /\ conf[c].MaxAttempts # 0
    /\ MakePanics(conf[c].MaxAttempts)
    /\ callerPc' = [callerPc EXCEPT ![c] = "panicked"]
    /\ UNCHANGED <<spawned, delivered, curveVars,
                   callers, conf, taskPc, result, errorChannel, errorList,
                   attempt, res, err, ret, history, logged, curveArgs, waits>>

\* lines 34-42: make the channels and start the retry goroutine
BackoffSpawn(c) ==
    /\ callerPc[c] = "entry"
    /\ ~InvalidConfig(conf[c])
    /\ ~(conf[c].MaxAttempts # 0 /\ MakePanics(conf[c].MaxAttempts))
    /\ result' = [result EXCEPT ![ResultChan(c)] = <<>>]
    /\ errorList' = [errorList EXCEPT ![c] = EmptyErrorList]
    /\ errorChannel' = [errorChannel EXCEPT
                          ![c] = NewErrorChannel(conf[c].MaxAttempts)]
    /\ taskPc' = [taskPc EXCEPT ![c] = "loop"]
    /\ spawned' = [spawned EXCEPT ![c] = spawned[c] + 1]
    /\ attempt' = [attempt EXCEPT ![c] = 0]
    /\ res' = [res EXCEPT ![c] = NilPtr]
    /\ callerPc' = [callerPc EXCEPT ![c] = "receive"]
    /\ UNCHANGED <<delivered, curveVars,
                   callers, conf, err, ret, history, logged, curveArgs, waits>>

\* lines 44-47: res := <-result; a non-nil res is returned with nil errors
BackoffReceive(c) ==
    /\ callerPc[c] = "receive"
    /\ Len(result[ResultChan(c)]) > 0
    /\ result' = [result EXCEPT
                    ![ResultChan(c)] = Tail(result[ResultChan(c)])]
    /\ IF Head(result[ResultChan(c)]) # NilPtr
         THEN /\ ret' = [ret EXCEPT
                           ![c] = [res |-> Head(result[ResultChan(c)]),
                                            errs |-> NilSlice]]
              /\ callerPc' = [callerPc EXCEPT ![c] = "returned"]
         ELSE /\ callerPc' = [callerPc EXCEPT ![c] = "drain"]
              /\ UNCHANGED ret
    /\ UNCHANGED <<spawned, delivered, curveVars,
                   callers, conf, taskPc, errorChannel, errorList,
                   attempt, res, err, history, logged, curveArgs, waits>>

\* the drain loop reporting every collected error to LogFailure
BackoffDrainLogging(c) ==
    /\ callerPc[c] = "drain"
    /\ ChanLen(errorChannel[c]) > 0
    /\ errorList' = [errorList EXCEPT
                       ![c] = AppendError(errorList[c],
                                          Head(errorChannel[c].buf))]
    /\ logged' = [logged EXCEPT
                    ![c] = Append(logged[c], Head(errorChannel[c].buf))]
    /\ errorChannel' = [errorChannel EXCEPT
                          ![c].buf = Tail(errorChannel[c].buf)]
    /\ UNCHANGED <<spawned, delivered, curveVars,
                   callers, conf, callerPc, taskPc, result, attempt, res,
                   err, ret, history, curveArgs, waits>>

\* lines 49-52: one iteration of the drain loop
BackoffDrain(c) ==
    /\ callerPc[c] = "drain"
    /\ ChanLen(errorChannel[c]) > 0
    /\ errorList' = [errorList EXCEPT
                       ![c] = AppendError(errorList[c],
                                          Head(errorChannel[c].buf))]
    /\ errorChannel' = [errorChannel EXCEPT
                          ![c].buf = Tail(errorChannel[c].buf)]
    /\ UNCHANGED <<spawned, delivered, curveVars,
                   callers, conf, callerPc, taskPc, result, attempt, res,
                   err, ret, history, logged, curveArgs, waits>>

\* an if in place of the for of line 49: one error is read, then the return
BackoffReturnErrorsAfterOne(c) ==
    /\ callerPc[c] = "drain"
    /\ \/ ~(ChanLen(errorChannel[c]) > 0)
       \/ Len(errorList[c].elems) >= 1
    /\ ret' = [ret EXCEPT ![c] = [res |-> NilPtr, errs |-> errorList[c]]]
    /\ callerPc' = [callerPc EXCEPT ![c] = "returned"]
    /\ UNCHANGED <<spawned, delivered, curveVars,
                   callers, conf, taskPc, result, errorChannel, errorList,
                   attempt, res, err, history, logged, curveArgs, waits>>

\* lines 49, 54: the channel is empty; return nil, errorList
BackoffReturnErrors(c) ==
    /\ callerPc[c] = "drain"
    /\ ~(ChanLen(errorChannel[c]) > 0)
    /\ ret' = [ret EXCEPT ![c] = [res |-> NilPtr, errs |-> errorList[c]]]
    /\ callerPc' = [callerPc EXCEPT ![c] = "returned"]
    /\ UNCHANGED <<spawned, delivered, curveVars,
                   callers, conf, taskPc, result, errorChannel, errorList,
                   attempt, res, err, history, logged, curveArgs, waits>>

----------------------------------------------------------------------------
(* backoff: the retry goroutine *)

\* line 68: the loop condition
TaskLoop(c) ==
    /\ taskPc[c] = "loop"
    /\ taskPc' = [taskPc EXCEPT
                    ![c] = IF LoopCond(conf[c].MaxAttempts, attempt[c])
                             THEN "wait" ELSE "deliver"]
    /\ UNCHANGED <<spawned, delivered, curveVars,
                   callers, conf, callerPc, result, errorChannel, errorList,
                   attempt, res, err, ret, history, logged, curveArgs, waits>>

\* line 69: evaluate the curve and wait
TaskWait(c) ==
    /\ taskPc[c] = "wait"
    /\ curveArgs' = [curveArgs EXCEPT ![c] = Append(curveArgs[c], attempt[c])]
    /\ waits' = [waits EXCEPT
                   ![c] = Append(waits[c],
                                 Suspended(DelayOf(Curve(conf[c], attempt[c]))))]
    /\ taskPc' = [taskPc EXCEPT ![c] = "invoke"]
    /\ UNCHANGED <<spawned, delivered, curveVars,
                   callers, conf, callerPc, result, errorChannel, errorList,
                   attempt, res, err, ret, history, logged>>

\* lines 71-72: res, err = fn()
TaskInvoke(c) ==
    /\ taskPc[c] = "invoke"
    /\ Len(history[c]) < InvocationCap
    /\ \E o \in Outcomes :
         /\ res' = [res EXCEPT ![c] = o.res]
         /\ err' = [err EXCEPT ![c] = o.err]
         /\ history' = [history EXCEPT ![c] = Append(history[c], o)]
    /\ taskPc' = [taskPc EXCEPT ![c] = "log"]
    /\ UNCHANGED <<spawned, delivered, curveVars,
                   callers, conf, callerPc, result, errorChannel, errorList,
                   attempt, ret, logged, curveArgs, waits>>

\* the callback reserved for the invocations that returned a nil result
TaskLogOnlyOnNilResult(c) ==
    /\ taskPc[c] = "log"
    /\ logged' = [logged EXCEPT
                    ![c] = IF ShouldLog(err[c], conf[c].LogFailure)
                              /\ res[c] = NilPtr
                             THEN Append(logged[c], err[c]) ELSE logged[c]]
    /\ taskPc' = [taskPc EXCEPT ![c] = "send"]
    /\ UNCHANGED <<spawned, delivered, curveVars,
                   callers, conf, callerPc, result, errorChannel, errorList,
                   attempt, res, err, ret, history, curveArgs, waits>>

\* lines 74-77: report the error to LogFailure
TaskLog(c) ==
    /\ taskPc[c] = "log"
    /\ logged' = [logged EXCEPT
                    ![c] = IF ShouldLog(err[c], conf[c].LogFailure)
                             THEN Append(logged[c], err[c]) ELSE logged[c]]
    /\ taskPc' = [taskPc EXCEPT ![c] = "send"]
    /\ UNCHANGED <<spawned, delivered, curveVars,
                   callers, conf, callerPc, result, errorChannel, errorList,
                   attempt, res, err, ret, history, curveArgs, waits>>

\* lines 78-80: errors <- err (blocks while the buffer is full)
TaskSend(c) ==
    /\ taskPc[c] = "send"
    /\ IF ShouldSend(err[c], conf[c].MaxAttempts, errorChannel[c])
         THEN /\ ChanLen(errorChannel[c]) < errorChannel[c].cap
              /\ errorChannel' = [errorChannel EXCEPT
                                    ![c].buf = Append(errorChannel[c].buf,
                                                      err[c])]
         ELSE UNCHANGED errorChannel
    /\ taskPc' = [taskPc EXCEPT ![c] = "check"]
    /\ UNCHANGED <<spawned, delivered, curveVars,
                   callers, conf, callerPc, result, errorList, attempt, res,
                   err, ret, history, logged, curveArgs, waits>>

\* the break preceded by a send of the result, which line 89 sends again
TaskCheckSendsOnBreak(c) ==
    /\ taskPc[c] = "check"
    /\ IF StopRetrying(res[c])
         THEN /\ Len(result[ResultChan(c)]) < ResultCap
              /\ result' = [result EXCEPT
                              ![ResultChan(c)] =
                                  Append(result[ResultChan(c)], res[c])]
              /\ delivered' = [delivered EXCEPT
                                 ![c] = Append(delivered[c], res[c])]
              /\ taskPc' = [taskPc EXCEPT ![c] = "deliver"]
              /\ UNCHANGED attempt
         ELSE /\ attempt' = [attempt EXCEPT ![c] = NextAttempt(attempt[c])]
              /\ taskPc' = [taskPc EXCEPT ![c] = "loop"]
              /\ UNCHANGED <<result, delivered>>
    /\ UNCHANGED <<spawned, curveVars,
                   callers, conf, callerPc, errorChannel, errorList,
                   res, err, ret, history, logged, curveArgs, waits>>

\* a loop that counts an attempt only when the operation returned an error
TaskCheckCountsErrors(c) ==
    /\ taskPc[c] = "check"
    /\ IF StopRetrying(res[c])
         THEN /\ taskPc' = [taskPc EXCEPT ![c] = "deliver"]
              /\ UNCHANGED attempt
         ELSE /\ attempt' = [attempt EXCEPT
                               ![c] = IF err[c] # NilErr
                                        THEN NextAttempt(attempt[c])
                                        ELSE attempt[c]]
              /\ taskPc' = [taskPc EXCEPT ![c] = "loop"]
    /\ UNCHANGED <<spawned, delivered, curveVars,
                   callers, conf, callerPc, result, errorChannel, errorList,
                   res, err, ret, history, logged, curveArgs, waits>>

\* lines 82-86: break on a non-nil res, otherwise attempt++
TaskCheck(c) ==
    /\ taskPc[c] = "check"
    /\ IF StopRetrying(res[c])
         THEN /\ taskPc' = [taskPc EXCEPT ![c] = "deliver"]
              /\ UNCHANGED attempt
         ELSE /\ attempt' = [attempt EXCEPT ![c] = NextAttempt(attempt[c])]
              /\ taskPc' = [taskPc EXCEPT ![c] = "loop"]
    /\ UNCHANGED <<spawned, delivered, curveVars,
                   callers, conf, callerPc, result, errorChannel, errorList,
                   res, err, ret, history, logged, curveArgs, waits>>

\* line 89: result <- res (blocks while the buffer of capacity 1 is full)
TaskDeliver(c) ==
    /\ taskPc[c] = "deliver"
    /\ Len(result[ResultChan(c)]) < ResultCap
    /\ result' = [result EXCEPT
                    ![ResultChan(c)] = Append(result[ResultChan(c)], res[c])]
    /\ delivered' = [delivered EXCEPT ![c] = Append(delivered[c], res[c])]
    /\ taskPc' = [taskPc EXCEPT ![c] = "ended"]
    /\ UNCHANGED <<spawned, curveVars,
                   callers, conf, callerPc, errorChannel, errorList, attempt,
                   res, err, ret, history, logged, curveArgs, waits>>

----------------------------------------------------------------------------

CallerStep(c) ==
    \/ BackoffInvalid(c)
    \/ BackoffPanic(c)
    \/ BackoffSpawn(c)
    \/ BackoffReceive(c)
    \/ BackoffDrain(c)
    \/ BackoffReturnErrors(c)

TaskStep(c) ==
    \/ TaskLoop(c)
    \/ TaskWait(c)
    \/ TaskInvoke(c)
    \/ TaskLog(c)
    \/ TaskSend(c)
    \/ TaskCheck(c)
    \/ TaskDeliver(c)

Next ==
    \/ \E c \in callers : BackoffInvalid(c)
    \/ \E c \in callers : BackoffPanic(c)
    \/ \E c \in callers : BackoffSpawn(c)
    \/ \E c \in callers : BackoffReceive(c)
    \/ \E c \in callers : BackoffDrain(c)
    \/ \E c \in callers : BackoffReturnErrors(c)
    \/ \E c \in callers : TaskLoop(c)
    \/ \E c \in callers : TaskWait(c)
    \/ \E c \in callers : TaskInvoke(c)
    \/ \E c \in callers : TaskLog(c)
    \/ \E c \in callers : TaskSend(c)
    \/ \E c \in callers : TaskCheck(c)
    \/ \E c \in callers : TaskDeliver(c)

Spec == Init /\ [][Next]_vars

\* every goroutine that can run is eventually scheduled
FairSpec ==
    /\ Spec
    /\ \A c \in CallIds : WF_vars(c \in callers /\ CallerStep(c))
    /\ \A c \in CallIds : WF_vars(c \in callers /\ TaskStep(c))

----------------------------------------------------------------------------
(* The curves evaluated on their own *)

\* the attempt indexes a curve is evaluated at
CurveXs == 0..MaxCurveAttempts

\* the limits (seconds, in thousandths) given to Default
Limits == {1000, 10000, 60000}

\* the parameters given to Logistic
Steepnesses == {-500, 0, 600, 1000}
Maxima == {-1000, 0, 500, 10000}
Midpoints == {0, 2 * One}

CurveInputs ==
    {Default(n, l) : n \in CurveXs, l \in Limits}
      \cup {LogisticCurve(k, l, m) : k \in Steepnesses, l \in Maxima,
                                    m \in Midpoints}
      \cup {LinearCurve(mul) : mul \in CurveMuls}

CurveInit ==
    /\ InitCalls({})
    /\ curve \in CurveInputs
    /\ evals = {}

\* the curve returned by Default, called with float64(x)
EvalDefault(x) ==
    /\ curve.kind = "Default"
    /\ evals' = evals \cup
                   {<<x, Logistic(x * One, curve.k, curve.L, curve.x0)>>}
    /\ UNCHANGED <<callers, conf, callerPc, taskPc, result, errorChannel,
                   errorList, attempt, res, err, ret, history, logged,
                   curveArgs, waits, spawned, delivered, curve>>

\* Logistic called with float64(x)
EvalLogistic(x) ==
    /\ curve.kind = "Logistic"
    /\ evals' = evals \cup
                   {<<x, Logistic(x * One, curve.k, curve.L, curve.x0)>>}
    /\ UNCHANGED <<callers, conf, callerPc, taskPc, result, errorChannel,
                   errorList, attempt, res, err, ret, history, logged,
                   curveArgs, waits, spawned, delivered, curve>>

\* Linear called with x
EvalLinear(x) ==
    /\ curve.kind = "Linear"
    /\ evals' = evals \cup {<<x, Linear(x, curve.mul)>>}
    /\ UNCHANGED <<callers, conf, callerPc, taskPc, result, errorChannel,
                   errorList, attempt, res, err, ret, history, logged,
                   curveArgs, waits, spawned, delivered, curve>>

CurveNext ==
    \/ \E x \in CurveXs : EvalDefault(x)
    \/ \E x \in CurveXs : EvalLogistic(x)
    \/ \E x \in CurveXs : EvalLinear(x)

CurveSpec == CurveInit /\ [][CurveNext]_vars

----------------------------------------------------------------------------
(* Two Backoff calls made concurrently *)

\* the configurations of the two calls: the first without a budget or with
\* one, the second with the same or a different budget, a negative one, or
\* without its Func
PairConfigs(c) ==
    { cf \in Configs :
        /\ ~cf.CurveNil /\ cf.LogFailure /\ cf.mul = 1000
        /\ IF c = 1
             THEN ~cf.FuncNil /\ cf.MaxAttempts \in {0, 2}
             ELSE /\ cf.MaxAttempts \in {-1, 1, 2}
                  /\ cf.FuncNil => cf.MaxAttempts = 1 }

PairInit ==
    /\ InitCalls({1, 2})
    /\ InitNoCurve
    /\ \A c \in {1, 2} : conf[c] \in PairConfigs(c)

PairSpec == PairInit /\ [][Next]_vars

----------------------------------------------------------------------------
(* Backoff run on its own, one statement after the other, on a given       *)
(* sequence of outcomes of Func                                            *)

RECURSIVE LoopAlone(_, _, _, _)
LoopAlone(cf, outs, a, errs) ==
    LET n == a + 1
        ch == NewErrorChannel(cf.MaxAttempts)
    IN  IF ~LoopCond(cf.MaxAttempts, a)
          THEN [finished |-> TRUE, res |-> NilPtr, errs |-> errs,
                invocations |-> a]
        ELSE IF n > Len(outs)
          THEN [finished |-> FALSE, res |-> NilPtr, errs |-> errs,
                invocations |-> a]
        ELSE LET sent == IF ShouldSend(outs[n].err, cf.MaxAttempts, ch)
                           THEN Append(errs, outs[n].err) ELSE errs
             IN  IF StopRetrying(outs[n].res)
                   THEN [finished |-> TRUE, res |-> outs[n].res,
                         errs |-> sent, invocations |-> n]
                   ELSE LoopAlone(cf, outs, NextAttempt(a), sent)

\* what Backoff returns, and after how many invocations
RunAlone(cf, outs) ==
    LET r == LoopAlone(cf, outs, 0, <<>>)
    IN  [finished |-> r.finished,
         invocations |-> r.invocations,
         ret |-> IF r.res # NilPtr
                   THEN [res |-> r.res, errs |-> NilSlice]
                   ELSE [res |-> NilPtr, errs |-> Slice(r.errs)]]

----------------------------------------------------------------------------
(* Derived values used by the properties *)

Valid(c) == ~conf[c].CurveNil /\ ~conf[c].FuncNil
Bounded(c) == Valid(c) /\ conf[c].MaxAttempts > 0
Unbounded(c) == Valid(c) /\ conf[c].MaxAttempts = 0
Returned(c) == callerPc[c] = "returned"

\* the errors of the invocations recorded in h, in order
ErrorsOf(h) == [i \in 1..Len(h) |-> h[i].err]

IsError(e) == e # NilErr

\* the non-nil errors among the invocations recorded in h, in order
NonNilErrorsOf(h) == SelectSeq(ErrorsOf(h), IsError)

\* every invocation so far returned a nil result and a non-nil error
AlwaysErrors(c) ==
    \A i \in 1..Len(history[c]) :
        history[c][i].res = NilPtr /\ history[c][i].err # NilErr

\* the errors currently held in the error log: channel plus list
ErrorLogSize(c) == ChanLen(errorChannel[c]) + Len(errorList[c].elems)

----------------------------------------------------------------------------
(* C1: a bounded call (MaxAttempts = N > 0) whose operation returned a nil *)
(* result and a non-nil error on every invocation returns a nil result and *)
(* exactly the N errors of the N invocations, in attempt order.            *)
C1_ExhaustedReturnsAllErrors ==
    \A c \in callers :
        (Returned(c) /\ Bounded(c) /\ AlwaysErrors(c)) =>
            /\ ret[c].res = NilPtr
            /\ Len(history[c]) = conf[c].MaxAttempts
            /\ ret[c].errs = Slice(ErrorsOf(history[c]))

C1_Witness ==
    \E c \in callers :
        /\ Returned(c) /\ Bounded(c) /\ AlwaysErrors(c)
        /\ conf[c].MaxAttempts = 3
        /\ ret[c].errs.elems = <<"e1", "e2", "e1">>

(* C2: when the operation returns nil results on attempts 0..k-1 and a     *)
(* non-nil value on attempt k, no invocation follows that one, and Backoff *)
(* returns exactly that value after exactly k+1 invocations.               *)
C2_StopsAtFirstSuccess ==
    \A c \in callers :
        /\ \A i \in 1..Len(history[c]) :
               history[c][i].res # NilPtr => i = Len(history[c])
        /\ (Returned(c) /\ Valid(c) /\ Len(history[c]) > 0
              /\ history[c][Len(history[c])].res # NilPtr) =>
               /\ ret[c].res = history[c][Len(history[c])].res
               /\ curveArgs[c] = [i \in 1..Len(history[c]) |-> i - 1]

C2_Witness ==
    \E c \in callers :
        /\ Returned(c) /\ Valid(c)
        /\ Len(history[c]) = 3
        /\ history[c][1].err # NilErr /\ history[c][2].err # NilErr
        /\ history[c][3].res = "V2"
        /\ ret[c].res = "V2"

(* C3: with a nil Curve or a nil Func, Backoff returns a nil result and    *)
(* the one-element error sequence [ErrInvalidConfig]; no retry goroutine   *)
(* is started and the operation, the curve and the failure callback are    *)
(* never invoked.                                                          *)
C3_InvalidConfigFastFail ==
    \A c \in callers :
        ~Valid(c) =>
            /\ taskPc[c] = "none"
            /\ history[c] = <<>> /\ curveArgs[c] = <<>> /\ logged[c] = <<>>
            /\ callerPc[c] \in {"entry", "returned"}
            /\ Returned(c) =>
                  ret[c] = [res |-> NilPtr, errs |-> Slice(<<ErrInvalidConfig>>)]

C3_Witness ==
    \E c \in callers :
        /\ conf[c].FuncNil /\ ~conf[c].CurveNil /\ conf[c].MaxAttempts = -1
        /\ Returned(c)

(* C4: in a bounded call (MaxAttempts = N > 0) the operation has been      *)
(* invoked at most N times and the error log (channel plus list) holds at  *)
(* most N errors, in every state.                                          *)
C4_BoundedBudget ==
    \A c \in callers :
        Bounded(c) =>
            /\ Len(history[c]) <= conf[c].MaxAttempts
            /\ ErrorLogSize(c) <= conf[c].MaxAttempts

C4_Witness ==
    \E c \in callers :
        /\ Bounded(c)
        /\ Len(history[c]) = conf[c].MaxAttempts
        /\ ChanLen(errorChannel[c]) = 1 /\ Len(errorList[c].elems) = 1

(* C5: in a call without a budget (MaxAttempts = 0) the loop has no        *)
(* ceiling and Backoff returns only after an invocation yielded a non-nil  *)
(* result: it never returns a nil result, the retry goroutine leaves the   *)
(* loop only through the break, and the errors are handed to LogFailure    *)
(* but never put in the error channel, the error list or the return value. *)
C5_UnboundedReturnsOnlyOnSuccess ==
    \A c \in callers :
        Unbounded(c) =>
            /\ errorChannel[c] = NilChan
            /\ errorList[c].elems = <<>>
            /\ callerPc[c] # "drain"
            /\ taskPc[c] \in {"deliver", "ended"} => res[c] # NilPtr
            /\ Returned(c) =>
                  /\ ret[c].res # NilPtr
                  /\ ret[c].res = history[c][Len(history[c])].res
                  /\ ret[c].errs = NilSlice
                  /\ conf[c].LogFailure =>
                        logged[c] = NonNilErrorsOf(history[c])

C5_Witness ==
    \E c \in callers :
        /\ Unbounded(c) /\ Returned(c) /\ conf[c].LogFailure
        /\ Len(history[c]) > MaxBudget
        /\ Len(logged[c]) = Len(history[c])

(* C6: Backoff returns a non-nil result exactly when it returns a nil      *)
(* error sequence: a non-nil result comes with nil errors, also when       *)
(* earlier attempts of a bounded call put errors in the error channel, and *)
(* a nil result comes with a non-nil error sequence.                       *)
C6_ResultXorErrors ==
    \A c \in callers :
        Returned(c) => (ret[c].res # NilPtr <=> ret[c].errs.isNil)

C6_Witness ==
    \E c \in callers :
        /\ Returned(c) /\ Bounded(c)
        /\ ret[c].res # NilPtr /\ ret[c].errs = NilSlice
        /\ ChanLen(errorChannel[c]) = 2

\* a nil result returned with an empty, non-nil error sequence
C6_WitnessEmpty ==
    \E c \in callers :
        /\ Returned(c) /\ Bounded(c)
        /\ ret[c] = [res |-> NilPtr, errs |-> Slice(<<>>)]

(* C7: with LogFailure set, in a call with or without a budget, the        *)
(* callback is invoked once per non-nil error the operation returned, with *)
(* that error, in attempt order, never for a nil error, and the call for   *)
(* an invocation's error is made before the next attempt's delay begins.   *)
C7_LogFailurePerError ==
    \A c \in callers :
        (Valid(c) /\ conf[c].LogFailure /\ taskPc[c] # "none") =>
            IF taskPc[c] = "log"
              THEN logged[c] = NonNilErrorsOf(SubSeq(history[c], 1,
                                                     Len(history[c]) - 1))
              ELSE logged[c] = NonNilErrorsOf(history[c])

C7_Witness ==
    \E c \in callers :
        /\ Unbounded(c) /\ conf[c].LogFailure
        /\ taskPc[c] = "wait"
        /\ Len(history[c]) = 3
        /\ logged[c] = <<"e2", "e1">>

\* the same in a bounded call
C7_WitnessBounded ==
    \E c \in callers :
        /\ Bounded(c) /\ conf[c].LogFailure
        /\ taskPc[c] = "wait"
        /\ Len(history[c]) = 2
        /\ logged[c] = <<"e1">>

\* no invocation yielded a non-nil result
NeverSucceeded(c) == \A i \in 1..Len(history[c]) : history[c][i].res = NilPtr

(* C8: a bounded call (MaxAttempts = N > 0) whose goroutines keep being    *)
(* scheduled eventually returns, after at most N invocations, whatever the *)
(* operation returns; a call without a budget whose operation has not      *)
(* yielded a non-nil result has not returned.                              *)
C8_BoundedTerminates ==
    /\ \A c \in CallIds :
          [](c \in callers /\ Bounded(c) => <>(c \in callers /\ Returned(c)))
    /\ [](\A c \in callers :
              Bounded(c) => Len(history[c]) <= conf[c].MaxAttempts)
    /\ [](\A c \in callers :
              (Unbounded(c) /\ NeverSucceeded(c)) => ~Returned(c))

C8_Witness ==
    \E c \in callers :
        /\ Bounded(c) /\ Returned(c)
        /\ Len(history[c]) = conf[c].MaxAttempts
        /\ conf[c].MaxAttempts = MaxBudget
        /\ NeverSucceeded(c)

\* a call without a budget still retrying after more failures than any budget
C8_WitnessUnbounded ==
    \E c \in callers :
        /\ Unbounded(c) /\ NeverSucceeded(c)
        /\ Len(history[c]) > MaxBudget
        /\ callerPc[c] = "receive"

(* C9: for every value of MaxAttempts, negative ones included, Backoff     *)
(* never faults: it either is still running or has returned.               *)
C9_NeverFaults ==
    \A c \in callers : callerPc[c] # "panicked"

(* C10: before attempt i the retry goroutine is suspended for exactly      *)
(* Curve(i) seconds, for every non-negative value of the curve, fractional *)
(* values included.                                                        *)
C10_WaitsCurveSeconds ==
    \A c \in callers :
        \A i \in 1..Len(waits[c]) :
            Curve(conf[c], i - 1) >= 0 => waits[c][i] = Curve(conf[c], i - 1)

\* everything that belongs to call c
CallState(c) ==
    <<conf[c], callerPc[c], taskPc[c], result[c], errorChannel[c],
      errorList[c], attempt[c], res[c], err[c], ret[c], history[c],
      logged[c], curveArgs[c], waits[c], spawned[c], delivered[c]>>

\* call c is at a channel operation that its own state allows
CanSend(c) ==
    /\ taskPc[c] = "send" => ENABLED TaskSend(c)
    /\ (taskPc[c] = "deliver" /\ delivered[c] = <<>>) => ENABLED TaskDeliver(c)
    /\ (callerPc[c] = "receive" /\ taskPc[c] = "ended") =>
           ENABLED BackoffReceive(c)

(* C11: two Backoff calls running concurrently, with equal or different    *)
(* configurations, share no state and do not block one another: a step of  *)
(* one call changes nothing of the other, no call waits at a channel       *)
(* because of the other, and each call returns the result, after the       *)
(* number of invocations, that it produces when run alone on the same      *)
(* operation outcomes.                                                     *)
C11_ConcurrentCallsIndependent ==
    /\ [](\A c \in callers :
             /\ CanSend(c)
             /\ (Returned(c) /\ Valid(c)) =>
                   LET alone == RunAlone(conf[c], history[c])
                   IN  /\ alone.finished
                       /\ ret[c] = alone.ret
                       /\ Len(history[c]) = alone.invocations)
    /\ [][\A c, d \in callers :
             c # d => (CallState(c)' = CallState(c)
                         \/ CallState(d)' = CallState(d))]_vars

C11_Witness ==
    /\ callers = {1, 2}
    /\ conf[1].MaxAttempts = 0 /\ conf[2].MaxAttempts = 2
    /\ Returned(1) /\ Returned(2)
    /\ Len(history[1]) = 3 /\ ret[1].res = "V1"
    /\ ret[2] = [res |-> NilPtr, errs |-> Slice(<<"e2", "e1">>)]

(* C12: for N > 0 and L > 0 the curve Default(N, L), which is              *)
(* Logistic(x, N/5, L, N), is strictly greater at x = N than at x = 0.     *)
C12_DefaultRises ==
    (curve.kind = "Default" /\ curve.attempts > 0 /\ curve.L > 0) =>
        /\ 5 * curve.k - curve.attempts * One \in (-5)..5
        /\ \A a, b \in evals :
              (a[1] = curve.attempts /\ b[1] = 0) => a[2] > b[2]

C12_Witness ==
    /\ curve.kind = "Default" /\ curve.attempts = 1 /\ curve.L = 1000
    /\ \E a, b \in evals : a[1] = 1 /\ b[1] = 0 /\ a[2] > b[2] /\ b[2] > 0

(* C13: at its midpoint the logistic curve has the value L / (1 + e), for  *)
(* every steepness k, maximum L and midpoint x0: not L / 2.                *)
C13_MidpointValue ==
    curve.kind = "Logistic" =>
        \A a \in evals :
            a[1] * One = curve.x0 =>
                /\ a[2] = RoundDiv(curve.L * One, One + E)
                /\ curve.L # 0 => a[2] # curve.L \div 2

C13_Witness ==
    /\ curve = LogisticCurve(600, 10000, 2 * One)
    /\ <<2, 2690>> \in evals

(* C14: within one call the attempts are numbered 0, 1, 2, ...: the curve  *)
(* is evaluated once per attempt, with the attempt's index, the wait       *)
(* follows, and only then the operation is invoked for that attempt; the   *)
(* curve is not evaluated for the next attempt while the operation or the  *)
(* callback of the current one is still to complete.                       *)
C14_AttemptsSequential ==
    \A c \in callers :
        taskPc[c] # "none" =>
            /\ curveArgs[c] = [i \in 1..Len(curveArgs[c]) |-> i - 1]
            /\ Len(waits[c]) = Len(curveArgs[c])
            /\ Len(history[c]) = IF taskPc[c] = "invoke"
                                   THEN Len(curveArgs[c]) - 1
                                   ELSE Len(curveArgs[c])
            /\ taskPc[c] = "wait" => attempt[c] = Len(history[c])
            /\ (taskPc[c] \in {"log", "send", "check"} /\ conf[c].LogFailure) =>
                  Len(logged[c]) <= Len(curveArgs[c])

C14_Witness ==
    \E c \in callers :
        /\ taskPc[c] = "invoke"
        /\ curveArgs[c] = <<0, 1, 2>>
        /\ Len(history[c]) = 2 /\ Len(waits[c]) = 3

(* C15: in one call at most one invocation of the operation is in flight   *)
(* and the operation and the failure callback never run at the same time:  *)
(* one retry goroutine is spawned, every step invokes at most one of the   *)
(* two, once, and it is a step of the retry goroutine (at its invocation   *)
(* or its callback statement) made while the caller waits in the receive.  *)
C15_OneInvocationInFlight ==
    /\ [](\A c \in callers : spawned[c] <= 1)
    /\ [][\A c \in callers :
             /\ history'[c] # history[c] =>
                   /\ taskPc[c] = "invoke" /\ taskPc'[c] = "log"
                   /\ Len(history'[c]) = Len(history[c]) + 1
                   /\ logged'[c] = logged[c]
                   /\ callerPc[c] = "receive" /\ callerPc'[c] = "receive"
             /\ logged'[c] # logged[c] =>
                   /\ taskPc[c] = "log" /\ taskPc'[c] = "send"
                   /\ Len(logged'[c]) = Len(logged[c]) + 1
                   /\ history'[c] = history[c]
                   /\ callerPc[c] = "receive" /\ callerPc'[c] = "receive"]_vars

C15_Witness ==
    \E c \in callers :
        /\ spawned[c] = 1 /\ taskPc[c] = "send" /\ callerPc[c] = "receive"
        /\ Len(history[c]) = 2 /\ logged[c] = <<"e1", "e2">>

(* C16: in a bounded call the retry goroutine never blocks on the error    *)
(* channel: the channel has capacity MaxAttempts and at every send fewer   *)
(* errors than that are buffered, although the caller takes nothing out of *)
(* the channel before the result was handed over.                          *)
C16_ErrorSendNeverBlocks ==
    \A c \in callers :
        (Bounded(c) /\ taskPc[c] # "none") =>
            /\ errorChannel[c].cap = conf[c].MaxAttempts
            /\ (taskPc[c] = "send" /\ err[c] # NilErr) =>
                  /\ ChanLen(errorChannel[c]) < errorChannel[c].cap
                  /\ ENABLED TaskSend(c)
            /\ taskPc[c] # "ended" =>
                  /\ errorList[c].elems = <<>>
                  /\ errorChannel[c].buf = NonNilErrorsOf(
                        IF taskPc[c] \in {"log", "send"}
                          THEN SubSeq(history[c], 1, Len(history[c]) - 1)
                          ELSE history[c])

C16_Witness ==
    \E c \in callers :
        /\ Bounded(c) /\ conf[c].MaxAttempts = 3
        /\ taskPc[c] = "send" /\ err[c] # NilErr
        /\ ChanLen(errorChannel[c]) = 2
        /\ callerPc[c] = "receive"

\* the configuration passes the validation and its budget is not negative
Runs(c) == Valid(c) /\ conf[c].MaxAttempts >= 0

(* C17: a call with a valid configuration spawns exactly one retry         *)
(* goroutine; that goroutine sends exactly one value on the result         *)
(* channel, as its last action and without blocking; the value is the      *)
(* terminal outcome (a non-nil result, or nil after the budget is used     *)
(* up); the caller stays in the receive until that value is delivered.     *)
C17_OneShotHandoff ==
    \A c \in callers :
        Runs(c) =>
            /\ spawned[c] = IF callerPc[c] = "entry" THEN 0 ELSE 1
            /\ Len(delivered[c]) <= 1
            /\ delivered[c] # <<>> <=> taskPc[c] = "ended"
            /\ taskPc[c] = "deliver" => ENABLED TaskDeliver(c)
            /\ callerPc[c] \in {"drain", "returned"} => taskPc[c] = "ended"
            /\ (callerPc[c] = "receive" /\ taskPc[c] # "ended") =>
                  ~ENABLED BackoffReceive(c)
            /\ delivered[c] # <<>> =>
                  /\ delivered[c] = <<res[c]>>
                  /\ \/ res[c] # NilPtr
                     \/ /\ conf[c].MaxAttempts > 0
                        /\ attempt[c] = conf[c].MaxAttempts
                  /\ res[c] # NilPtr =>
                        res[c] = history[c][Len(history[c])].res

C17_Witness ==
    \E c \in callers :
        /\ Runs(c) /\ spawned[c] = 1
        /\ taskPc[c] = "ended" /\ callerPc[c] = "receive"
        /\ delivered[c] = <<NilPtr>> /\ result[c] = <<NilPtr>>
        /\ Len(history[c]) = 2

\* the same for a successful run, after the caller returned
C17_WitnessSuccess ==
    \E c \in callers :
        /\ Runs(c) /\ Returned(c)
        /\ delivered[c] = <<"V1">> /\ result[c] = <<>>

\* the last invocation of call c, and the invocations before it
LastCall(c) == history[c][Len(history[c])]
EarlierCalls(c) == SubSeq(history[c], 1, Len(history[c]) - 1)

\* call c's last invocation yielded a non-nil result
Yielded(c) == Len(history[c]) > 0 /\ LastCall(c).res # NilPtr

\* the errors put in the error channel so far, drained or not, in order
SentErrors(c) == errorList[c].elems \o errorChannel[c].buf

\* the non-nil error of the last invocation, as a sequence of length <= 1
LastError(c) == NonNilErrorsOf(<<LastCall(c)>>)

C19_DrainCollectsEverything ==
    \A c \in callers :
        (Runs(c) /\ callerPc[c] \in {"drain", "returned"}) =>
            /\ taskPc[c] = "ended"
            /\ ~ENABLED TaskStep(c)
            /\ result[c] = <<>>
            /\ ret[c].res = NilPtr =>
                  /\ Bounded(c)
                  /\ SentErrors(c) = NonNilErrorsOf(history[c])
                  /\ Returned(c) =>
                        /\ errorChannel[c].buf = <<>>
                        /\ ret[c].errs = Slice(NonNilErrorsOf(history[c]))

\* mid-drain: one error already in the list, one still in the channel
C19_Witness ==
    \E c \in callers :
        /\ Bounded(c) /\ callerPc[c] = "drain" /\ taskPc[c] = "ended"
        /\ errorList[c].elems = <<"e2">>
        /\ errorChannel[c].buf = <<"e1">>
        /\ Len(history[c]) = 3

\* after the drain: both errors returned, in the order sent
C19_WitnessReturned ==
    \E c \in callers :
        /\ Bounded(c) /\ Returned(c)
        /\ Len(history[c]) = 3
        /\ ret[c] = [res |-> NilPtr, errs |-> Slice(<<"e2", "e1">>)]

\* the invocations recorded in h that returned a nil result
IsNilResult(o) == o.res = NilPtr
NilResultsOf(h) == SelectSeq(h, IsNilResult)

\* the invocations recorded in h that returned neither a result nor an error
IsNilNil(o) == o.res = NilPtr /\ o.err = NilErr

(* C20: in a bounded call every invocation that returned a nil result has  *)
(* counted as one attempt, with or without an error, and only non-nil      *)
(* errors are kept; an exhausted call made MaxAttempts invocations and     *)
(* returns a non-nil error sequence with one entry per invocation that     *)
(* returned a non-nil error: fewer than MaxAttempts entries, possibly      *)
(* none, when some invocation returned (nil, nil).                         *)
C20_NilNilConsumesAttempt ==
    \A c \in callers :
        (Bounded(c) /\ taskPc[c] # "none") =>
            /\ attempt[c] =
                  Len(NilResultsOf(IF taskPc[c] \in {"log", "send", "check"}
                                     THEN EarlierCalls(c) ELSE history[c]))
            /\ \A i \in 1..Len(SentErrors(c)) : SentErrors(c)[i] # NilErr
            /\ (Returned(c) /\ ret[c].res = NilPtr) =>
                  /\ NeverSucceeded(c)
                  /\ Len(history[c]) = conf[c].MaxAttempts
                  /\ ~ret[c].errs.isNil
                  /\ Len(ret[c].errs.elems) =
                        Len(history[c]) - Len(SelectSeq(history[c], IsNilNil))
                  /\ SelectSeq(history[c], IsNilNil) # <<>> =>
                        Len(ret[c].errs.elems) < conf[c].MaxAttempts

\* two invocations returned (nil, nil), one an error
C20_Witness ==
    \E c \in callers :
        /\ Bounded(c) /\ Returned(c) /\ conf[c].MaxAttempts = 3
        /\ history[c] = <<[res |-> NilPtr, err |-> NilErr],
                          [res |-> NilPtr, err |-> "e1"],
                          [res |-> NilPtr, err |-> NilErr]>>
        /\ ret[c] = [res |-> NilPtr, errs |-> Slice(<<"e1">>)]

\* every invocation returned (nil, nil): nil result, empty non-nil list
C20_WitnessNoErrors ==
    \E c \in callers :
        /\ Bounded(c) /\ Returned(c) /\ conf[c].MaxAttempts = 2
        /\ Len(history[c]) = 2
        /\ SelectSeq(history[c], IsNilNil) = history[c]
        /\ ret[c].res = NilPtr
        /\ ~ret[c].errs.isNil /\ ret[c].errs.elems = <<>>

====
